---------------------------- MODULE Spec2Model ----------------------------
(***************************************************************************)
(* Model of package uniqid (src/uniqid.go, src/util.go).                   *)
(*                                                                         *)
(* A uint64 is kept at its full width as four 16-bit limbs, most           *)
(* significant limb first: TLC's integers are 32 bits wide, the program's  *)
(* are 64.  A []byte is a sequence of byte values 0..255 (ASCII codes);    *)
(* Go's index i is index i+1 of the sequence.                              *)
(***************************************************************************)
EXTENDS Integers, Sequences, FiniteSets, TLC

(***************************************************************************)
(* Machine arithmetic                                                      *)
(***************************************************************************)
W16 == 2^16
W8  == 2^8

RECURSIVE BitAnd(_, _)
BitAnd(a, b) ==
    IF a = 0 \/ b = 0 THEN 0
    ELSE 2 * BitAnd(a \div 2, b \div 2) + (IF a % 2 = 1 /\ b % 2 = 1 THEN 1 ELSE 0)

RECURSIVE BitOr(_, _)
BitOr(a, b) ==
    IF a = 0 THEN b
    ELSE IF b = 0 THEN a
    ELSE 2 * BitOr(a \div 2, b \div 2) + (IF a % 2 = 1 \/ b % 2 = 1 THEN 1 ELSE 0)

\* uint64(x) for a value x of a narrower unsigned type (x < 2^31).
U64(x) == << 0, 0, (x \div W16) % W16, x % W16 >>

\* byte(n): the conversion keeps the low 8 bits.
ByteOf(n) == n[4] % W8

\* a + b on uint64: wraps modulo 2^64.
Add64(a, b) ==
    LET s4 == a[4] + b[4]
        s3 == a[3] + b[3] + (s4 \div W16)
        s2 == a[2] + b[2] + (s3 \div W16)
        s1 == a[1] + b[1] + (s2 \div W16)
    IN  << s1 % W16, s2 % W16, s3 % W16, s4 % W16 >>

\* a - b on uint64: wraps modulo 2^64.
Sub64(a, b) ==
    LET nb == << W16 - 1 - b[1], W16 - 1 - b[2], W16 - 1 - b[3], W16 - 1 - b[4] >>
    IN  Add64(a, Add64(nb, U64(1)))

And64(a, b) == [i \in 1..4 |-> BitAnd(a[i], b[i])]
Or64(a, b)  == [i \in 1..4 |-> BitOr(a[i], b[i])]

\* Limb i (1 = most significant) of a, 0 outside the word.
LimbAt(a, i) == IF i \in 1..4 THEN a[i] ELSE 0

\* a << k on uint64 (k >= 64 gives 0, as in Go).
Shl64(a, k) ==
    LET q == k \div 16
        r == k % 16
    IN  [i \in 1..4 |->
            ((LimbAt(a, i + q) % 2^(16 - r)) * 2^r) + (LimbAt(a, i + q + 1) \div 2^(16 - r))]

\* a >> k on uint64 (k >= 64 gives 0, as in Go).
Shr64(a, k) ==
    LET q == k \div 16
        r == k % 16
    IN  [i \in 1..4 |->
            (LimbAt(a, i - q) \div 2^r) + ((LimbAt(a, i - q - 1) % 2^r) * 2^(16 - r))]


(***************************************************************************)
(* Hex codec (pure functions of src/uniqid.go)                             *)
(***************************************************************************)
\* hexByte with the letters in lower case: return c - 10 + 'a'
hexByteLower(c) ==
    IF c < 10 THEN (48 + c) % W8
    ELSE (c - 10 + 97) % W8

\* hexByte that drops the lowest bit of the nibble it renders.
hexByteEven(c) ==
    IF c - (c % 2) < 10 THEN 48 + (c - (c % 2)) ELSE (c - (c % 2)) - 10 + 65

\* func hexByte(c byte) byte
hexByte(c) ==
    IF c < 10 THEN (48 + c) % W8
    ELSE (c - 10 + 65) % W8

\* fromHex without its case 'A' <= b && b <= 'F'
fromHexNoUpper(b) ==
    IF 48 <= b /\ b <= 57 THEN b - 48
    ELSE IF 97 <= b /\ b <= 102 THEN b - 97 + 10
    ELSE 255

\* func fromHex(b byte) byte
fromHex(b) ==
    IF 48 <= b /\ b <= 57 THEN b - 48
    ELSE IF 97 <= b /\ b <= 102 THEN b - 97 + 10
    ELSE IF 65 <= b /\ b <= 70 THEN b - 65 + 10
    ELSE 255

\* The loop of Append stopping one byte early: i < 8
RECURSIVE AppendLoopShort(_, _, _)
AppendLoopShort(dst, n, i) ==
    IF i < 8
    THEN LET shift == 64 - (i * 2^3)
             c     == ByteOf(Shr64(n, shift))
         IN  AppendLoopShort(dst \o << hexByte(c \div 2^4), hexByte(BitAnd(c, 15)) >>, n, i + 1)
    ELSE dst

\* The loop of Append: for i := uint(1); i <= 8; i++ { ... }
RECURSIVE AppendLoop(_, _, _)
AppendLoop(dst, n, i) ==
    IF i <= 8
    THEN LET shift == 64 - (i * 2^3)
             c     == ByteOf(Shr64(n, shift))
         IN  AppendLoop(dst \o << hexByte(c \div 2^4), hexByte(BitAnd(c, 15)) >>, n, i + 1)
    ELSE dst

\* GetServerID with the two bytes the wrong way round: uint16(b1)<<8 | uint16(b0)
GetServerIDSwapped(hex) ==
    IF Len(hex) < 16 THEN 0
    ELSE LET b0h == fromHex(hex[1])
             b0l == fromHex(hex[2])
             b1h == fromHex(hex[3])
             b1l == fromHex(hex[4])
         IN  IF b0h = 255 \/ b0l = 255 \/ b1h = 255 \/ b1l = 255 THEN 0
             ELSE LET b0 == BitOr((b0h * 2^4) % W8, b0l)
                      b1 == BitOr((b1h * 2^4) % W8, b1l)
                  IN  BitOr((b1 * 2^8) % W16, b0)

\* GetServerID with the length check of the README: if len(hex) < 4
GetServerIDLen4(hex) ==
    IF Len(hex) < 4 THEN 0
    ELSE LET b0h == fromHex(hex[1])
             b0l == fromHex(hex[2])
             b1h == fromHex(hex[3])
             b1l == fromHex(hex[4])
         IN  IF b0h = 255 \/ b0l = 255 \/ b1h = 255 \/ b1l = 255 THEN 0
             ELSE LET b0 == BitOr((b0h * 2^4) % W8, b0l)
                      b1 == BitOr((b1h * 2^4) % W8, b1l)
                  IN  BitOr((b0 * 2^8) % W16, b1)

\* func GetServerID(hex []byte) uint16
GetServerID(hex) ==
    IF Len(hex) < 16 THEN 0
    ELSE LET b0h == fromHex(hex[1])
             b0l == fromHex(hex[2])
             b1h == fromHex(hex[3])
             b1l == fromHex(hex[4])
         IN  IF b0h = 255 \/ b0l = 255 \/ b1h = 255 \/ b1l = 255 THEN 0
             ELSE LET b0 == BitOr((b0h * 2^4) % W8, b0l)
                      b1 == BitOr((b1h * 2^4) % W8, b1l)
                  IN  BitOr((b0 * 2^8) % W16, b1)

(***************************************************************************)
(* Identifier generator                                                    *)
(***************************************************************************)
\* const mask48 uint64 = (uint64(1) << 48) - 1
mask48 == Sub64(Shl64(U64(1), 48), U64(1))

\* A load where the add should be: atomic.LoadUint64(&uniqueAdID)
AtomicLoadOnly(v) == v

\* atomic.AddUint64(&uniqueAdID, 2): the counter skips a value at each call.
AtomicAddTwo(v) == Add64(v, U64(2))

\* atomic.AddUint64(&uniqueAdID, 1): the new value of the counter.
AtomicAdd(v) == Add64(v, U64(1))

\* Without the mask: (uint64(serverID) << 48) | adID
MakeIDNoMask(sid, adID) == Or64(Shl64(U64(sid), 48), adID)

\* return (uint64(serverID) << 48) | (adID & mask48)
MakeID(sid, adID) == Or64(Shl64(U64(sid), 48), And64(adID, mask48))

\* net.IP.To4: the 4-byte form of an IPv4 address, <<>> (nil) otherwise.
To4(ip) ==
    IF Len(ip) = 4 THEN ip
    ELSE IF /\ Len(ip) = 16
            /\ \A i \in 1..10 : ip[i] = 0
            /\ ip[11] = 255 /\ ip[12] = 255
         THEN SubSeq(ip, 13, 16)
         ELSE << >>

\* serverID = uint16(ip4[2])<<8 | uint16(ip4[3])
DeriveServerID(ip4) == BitOr((ip4[3] * 2^8) % W16, ip4[4])

\* SetServerID that refuses every call: if serverID >= 0 { log.Panicf(...) }
AlreadySetAlways(sid) == sid >= 0

\* if serverID > 0 { log.Panicf(...) } in SetServerID
AlreadySet(sid) == sid > 0

\* initServerID that takes 0 for an assigned identifier: if serverID >= 0
HasServerIDOrZero(sid) == sid >= 0

\* if serverID > 0 { return } in initServerID
HasServerID(sid) == sid > 0

(***************************************************************************)
(* Bounds and inputs                                                       *)
(***************************************************************************)
NProc    == 2
MaxCalls == 3

Procs == 1..NProc

\* Arguments of SetServerID.
ServerIDs == {0, 77, 65535}

\* Values of time.Now().UnixNano() at start-up: a current clock value whose
\* low limb carries, one two steps before the low 48 bits wrap, one two
\* steps before the 64-bit counter itself wraps.
Seeds == { << 6245, 15437, 39612, 65535 >>,
           << 6245, 65535, 65535, 65534 >>,
           << 65535, 65535, 65535, 65534 >> }

\* What dialing out tells the process: no connection at all, or the local
\* address of the connection (IPv4, IPv4 ending in 0.0, IPv6).
Envs == { [dial |-> FALSE, addr |-> << >>],
          [dial |-> TRUE,  addr |-> << 10, 0, 171, 205 >>],
          [dial |-> TRUE,  addr |-> << 10, 1, 0, 0 >>],
          [dial |-> TRUE,  addr |-> << 32, 1, 13, 184, 0,0,0,0,0,0,0,0,0,0,0, 1 >>] }

\* Destination buffers handed to Append: nil and "id=".
Dsts == { << >>, << 105, 100, 61 >> }

(***************************************************************************)
(* State                                                                   *)
(***************************************************************************)
VARIABLES
    serverID,        \* var serverID uint16
    once,            \* var once sync.Once: "idle", "running" or "done"
    uniqueAdID,      \* var uniqueAdID uint64
    externalIP,      \* var externalIP net.IP
    externalIPOnce,  \* var externalIPOnce sync.Once
    env,             \* the network the process runs in (fixed)
    exited,          \* log.Fatalf has ended the process
    pc,              \* where each goroutine is in its current call
    frame,           \* the arguments, locals and result of each goroutine's call
    issued,          \* the identifiers Get has returned
    nIssued,         \* how many identifiers Get has returned
    calls,           \* the number of calls begun
    lastSet,         \* the id of the latest SetServerID call to return, or -1
    codec            \* the latest use of the hex codec on its own

vars == << serverID, once, uniqueAdID, externalIP, externalIPOnce, env, exited,
           pc, frame, issued, nIssued, calls, lastSet, codec >>

NoID == << 0, 0, 0, 0 >>

\* op, id, dst: the call and its arguments; adID, n: the locals of Get and
\* Append; outcome, buf: how the call ended ("ok": it returned, "panic") and
\* the slice Append returned; setBefore, setAtCall: see SetBefore, SetAtCall.
NoFrame == [op |-> "none", id |-> 0, dst |-> << >>, adID |-> NoID, n |-> NoID,
            outcome |-> "none", buf |-> << >>, setBefore |-> -1, setAtCall |-> -1]

\* op: "decode" (GetServerID was applied to hex and returned out) or "encode"
\* (the loop of Append rendered n into hex, and GetServerID then returned out).
NoCodec == [op |-> "none", hex |-> << >>, out |-> 0, n |-> NoID]

\* var externalIP = net.IPv4zero
IPv4zero == << 0, 0, 0, 0 >>

Init ==
    /\ serverID = 0
    /\ once = "idle"
    /\ uniqueAdID \in Seeds
    /\ externalIP = IPv4zero
    /\ externalIPOnce = "idle"
    /\ env \in Envs
    /\ exited = FALSE
    /\ pc = [p \in Procs |-> "idle"]
    /\ frame = [p \in Procs |-> NoFrame]
    /\ issued = {}
    /\ nIssued = 0
    /\ calls = 0
    /\ lastSet = -1
    /\ codec = NoCodec

\* Nothing is about to store serverID: no SetServerID call is between its
\* check and its store, and initServerID is not running.
NoStorePending ==
    /\ \A q \in Procs : pc[q] # "set_write"
    /\ once # "running"

\* Goroutine p may begin a call of the package: the process runs, p is not
\* inside a call, and the calls of this run are not used up.  Goroutines are
\* interchangeable, so a new call runs on the lowest-numbered free one.
CanCall(p) ==
    /\ ~exited
    /\ pc[p] = "idle"
    /\ \A q \in Procs : q < p => pc[q] # "idle"
    /\ calls < MaxCalls

\* initServerID has run through its store of the derived identifier.
LazyStored == once = "done" /\ externalIPOnce = "done" /\ To4(externalIP) # << >>

\* The id that a SetServerID call has stored before any identifier is
\* generated: the id of the latest SetServerID call that returned, when no
\* Get has entered once.Do yet and no other store to serverID is pending;
\* -1 when there is none.
SetBefore == IF once = "idle" /\ NoStorePending THEN lastSet ELSE -1

\* The id of the latest SetServerID call that returned, when no Get has
\* entered once.Do yet; -1 when there is none.
SetAtCall == IF once = "idle" THEN lastSet ELSE -1

\* The call of goroutine p begins.
NewFrame(op, id, dst) ==
    [NoFrame EXCEPT !.op = op, !.id = id, !.dst = dst, !.setBefore = SetBefore,
                    !.setAtCall = SetAtCall]

\* The call of goroutine p ends: it returned ("ok") or panicked ("panic").
Finish(p, fr, outcome) ==
    /\ pc' = [pc EXCEPT ![p] = "done"]
    /\ frame' = [frame EXCEPT ![p] = [fr EXCEPT !.outcome = outcome]]

(***************************************************************************)
(* func SetServerID(id uint16)                                             *)
(***************************************************************************)
\* A goroutine calls SetServerID(id):
\* if serverID > 0 { log.Panicf("serverID already set") }
SetCheck(p) ==
    /\ CanCall(p)
    /\ calls' = calls + 1
    /\ \E id \in ServerIDs :
          IF AlreadySet(serverID)
          THEN Finish(p, NewFrame("SetServerID", id, << >>), "panic")
          ELSE /\ pc' = [pc EXCEPT ![p] = "set_write"]
               /\ frame' = [frame EXCEPT ![p] = NewFrame("SetServerID", id, << >>)]
    /\ UNCHANGED << serverID, once, uniqueAdID, externalIP, externalIPOnce, env,
                    exited, issued, nIssued, lastSet, codec >>

\* serverID = id
SetWrite(p) ==
    /\ ~exited
    /\ pc[p] = "set_write"
    /\ serverID' = frame[p].id
    /\ lastSet' = frame[p].id
    /\ Finish(p, frame[p], "ok")
    /\ UNCHANGED << once, uniqueAdID, externalIP, externalIPOnce, env, exited,
                    issued, nIssued, calls, codec >>

(***************************************************************************)
(* func Get() uint64                                                       *)
(***************************************************************************)
\* A goroutine calls Get().
CallGet(p) ==
    /\ CanCall(p)
    /\ calls' = calls + 1
    /\ frame' = [frame EXCEPT ![p] = NewFrame("Get", 0, << >>)]
    /\ pc' = [pc EXCEPT ![p] = "once"]
    /\ UNCHANGED << serverID, once, uniqueAdID, externalIP, externalIPOnce, env,
                    exited, issued, nIssued, lastSet, codec >>

\* A once that lets only its first caller through: whoever arrives later
\* waits, also after initServerID has returned.
OnceDoFirstOnly(p) ==
    /\ ~exited
    /\ pc[p] = "once"
    /\ once = "idle"
    /\ pc' = [pc EXCEPT ![p] = "init_check"]
    /\ once' = "running"
    /\ UNCHANGED << serverID, uniqueAdID, externalIP, externalIPOnce, env, exited,
                    frame, issued, nIssued, calls, lastSet, codec >>

\* once.Do(initServerID): nothing to do once it is done; the first caller
\* runs initServerID; a caller that arrives while it runs waits for it.
OnceDo(p) ==
    /\ ~exited
    /\ pc[p] = "once"
    /\ once # "running"
    /\ IF once = "done"
       THEN /\ pc' = [pc EXCEPT ![p] = "add"]
            /\ once' = once
       ELSE /\ pc' = [pc EXCEPT ![p] = "init_check"]
            /\ once' = "running"
    /\ UNCHANGED << serverID, uniqueAdID, externalIP, externalIPOnce, env, exited,
                    frame, issued, nIssued, calls, lastSet, codec >>

\* initServerID: if serverID > 0 { return }
InitCheck(p) ==
    /\ ~exited
    /\ pc[p] = "init_check"
    /\ IF HasServerID(serverID)
       THEN /\ once' = "done"
            /\ pc' = [pc EXCEPT ![p] = "add"]
       ELSE /\ once' = once
            /\ pc' = [pc EXCEPT ![p] = "init_derive"]
    /\ UNCHANGED << serverID, uniqueAdID, externalIP, externalIPOnce, env, exited,
                    frame, issued, nIssued, calls, lastSet, codec >>

\* initServerID: ip4 := ExternalIP().To4() where no connection can be made:
\* initExternalIP ends the process with log.Fatalf.
InitFatal(p) ==
    /\ ~exited
    /\ pc[p] = "init_derive"
    /\ externalIPOnce = "idle"
    /\ ~env.dial
    /\ exited' = TRUE
    /\ UNCHANGED << serverID, once, uniqueAdID, externalIP, externalIPOnce, env,
                    pc, frame, issued, nIssued, calls, lastSet, codec >>

\* initServerID: ip4 := ExternalIP().To4(); panic if it is nil, else
\* serverID = uint16(ip4[2])<<8 | uint16(ip4[3]).  A panic leaves once done.
InitDerive(p) ==
    /\ ~exited
    /\ pc[p] = "init_derive"
    /\ externalIPOnce = "done" \/ env.dial
    /\ externalIP' = (IF externalIPOnce = "idle" THEN env.addr ELSE externalIP)
    /\ externalIPOnce' = "done"
    /\ once' = "done"
    /\ LET ip4 == To4(externalIP')
       IN  IF ip4 = << >>
           THEN /\ Finish(p, frame[p], "panic")
                /\ serverID' = serverID
           ELSE /\ serverID' = DeriveServerID(ip4)
                /\ pc' = [pc EXCEPT ![p] = "add"]
                /\ frame' = frame
    /\ UNCHANGED << uniqueAdID, env, exited, issued, nIssued, calls, lastSet, codec >>

\* adID := atomic.AddUint64(&uniqueAdID, 1)
GetAdd(p) ==
    /\ ~exited
    /\ pc[p] = "add"
    /\ uniqueAdID' = AtomicAdd(uniqueAdID)
    /\ frame' = [frame EXCEPT ![p].adID = uniqueAdID']
    /\ pc' = [pc EXCEPT ![p] = "ret"]
    /\ UNCHANGED << serverID, once, externalIP, externalIPOnce, env, exited,
                    issued, nIssued, calls, lastSet, codec >>

\* return (uint64(serverID) << 48) | (adID & mask48), to the caller of Get or
\* into Append's n.
GetReturn(p) ==
    /\ ~exited
    /\ pc[p] = "ret"
    /\ LET n == MakeID(serverID, frame[p].adID)
       IN  /\ issued' = issued \cup {[adID |-> frame[p].adID, n |-> n]}
           /\ nIssued' = nIssued + 1
           /\ IF frame[p].op = "Get"
              THEN Finish(p, [frame[p] EXCEPT !.n = n], "ok")
              ELSE /\ frame' = [frame EXCEPT ![p].n = n]
                   /\ pc' = [pc EXCEPT ![p] = "encode"]
    /\ UNCHANGED << serverID, once, uniqueAdID, externalIP, externalIPOnce, env,
                    exited, calls, lastSet, codec >>

(***************************************************************************)
(* func Append(dst []byte) []byte                                          *)
(***************************************************************************)
\* A goroutine calls Append(dst): n := Get()
CallAppend(p) ==
    /\ CanCall(p)
    /\ calls' = calls + 1
    /\ \E dst \in Dsts : frame' = [frame EXCEPT ![p] = NewFrame("Append", 0, dst)]
    /\ pc' = [pc EXCEPT ![p] = "once"]
    /\ UNCHANGED << serverID, once, uniqueAdID, externalIP, externalIPOnce, env,
                    exited, issued, nIssued, lastSet, codec >>

\* The loop over the 8 bytes of n, and return dst.
AppendEncode(p) ==
    /\ ~exited
    /\ pc[p] = "encode"
    /\ Finish(p, [frame[p] EXCEPT !.buf = AppendLoop(frame[p].dst, frame[p].n, 1)], "ok")
    /\ UNCHANGED << serverID, once, uniqueAdID, externalIP, externalIPOnce, env,
                    exited, issued, nIssued, calls, lastSet, codec >>

\* The caller has the result of its call (or has recovered from its panic)
\* and goes on.
Return(p) ==
    /\ ~exited
    /\ pc[p] = "done"
    /\ pc' = [pc EXCEPT ![p] = "idle"]
    /\ frame' = [frame EXCEPT ![p] = NoFrame]
    /\ UNCHANGED << serverID, once, uniqueAdID, externalIP, externalIPOnce, env,
                    exited, issued, nIssued, calls, lastSet, codec >>

Next ==
    \E p \in Procs :
        \/ SetCheck(p)
        \/ SetWrite(p)
        \/ CallGet(p)
        \/ OnceDo(p)
        \/ InitCheck(p)
        \/ InitFatal(p)
        \/ InitDerive(p)
        \/ GetAdd(p)
        \/ GetReturn(p)
        \/ CallAppend(p)
        \/ AppendEncode(p)
        \/ Return(p)

Spec == Init /\ [][Next]_vars

\* The next step of the call that goroutine p is in.
CallStep(p) ==
    \/ SetWrite(p) \/ OnceDo(p) \/ InitCheck(p) \/ InitFatal(p) \/ InitDerive(p)
    \/ GetAdd(p) \/ GetReturn(p) \/ AppendEncode(p)

\* Which goroutine runs next does not depend on the value of the counter:
\* the fair runs start from one seed.
FairInit == Init /\ uniqueAdID = << 6245, 15437, 39612, 65535 >>

\* Fair scheduling: a goroutine whose next step stays possible takes it (the
\* dials of initExternalIP end, with a connection or an error).
FairSpec == FairInit /\ [][Next]_vars /\ \A p \in Procs : WF_vars(CallStep(p))

(***************************************************************************)
(* The hex codec on its own: GetServerID applied to arbitrary bytes, and   *)
(* to the rendering of arbitrary identifiers.                              *)
(***************************************************************************)
MaxHexLen == 17

\* Bytes tried in the first four positions: the ends of the three ranges of
\* hex digits and their outer neighbours  / 0 9 : @ A F G ` a f g
HexProbe == {47, 48, 57, 58, 64, 65, 70, 71, 96, 97, 102, 103}

\* Bytes tried after the fourth position: '0' and 'z'.
Filler == {48, 122}

\* Every input of length 0..MaxHexLen made of up to four probe bytes and
\* then one repeated filler byte, and "zzzz000000000000".
HexInputs ==
    { [i \in 1..len |-> IF i <= 4 THEN pre[i] ELSE fill] :
        pre \in [1..4 -> HexProbe], fill \in Filler, len \in 0..MaxHexLen }
    \cup { [i \in 1..16 |-> IF i <= 4 THEN 122 ELSE 48] }

\* Identifiers Get can return: a server identifier over the low 48 bits of
\* a counter value.
CodecIDs ==
    { MakeID(sid, ctr) :
        sid \in {0, 77, 43981, 65535},
        ctr \in { NoID, << 65535, 65535, 65535, 65535 >>,
                  << 6245, 15437, 39612, 65535 >>, << 0, 4660, 22136, 57072 >> } }

\* The main variables, which the codec neither reads nor writes.
genVars == << serverID, once, uniqueAdID, externalIP, externalIPOnce, env,
              exited, pc, frame, issued, nIssued, calls, lastSet >>

\* v := GetServerID(hex)
Decode ==
    /\ codec.op = "none"
    /\ \E hex \in HexInputs :
          codec' = [op |-> "decode", hex |-> hex, out |-> GetServerID(hex), n |-> NoID]
    /\ UNCHANGED genVars

\* The loop of Append on an identifier n and an empty dst, then
\* v := GetServerID(adid) as in TestUniqid.
EncodeDecode ==
    /\ codec.op = "none"
    /\ \E n \in CodecIDs :
          LET adid == AppendLoop(<< >>, n, 1)
          IN  codec' = [op |-> "encode", hex |-> adid, out |-> GetServerID(adid), n |-> n]
    /\ UNCHANGED genVars

\* The caller has its result and goes on.
CodecReturn ==
    /\ codec.op # "none"
    /\ codec' = NoCodec
    /\ UNCHANGED genVars

CodecInit ==
    /\ Init
    /\ uniqueAdID = << 6245, 15437, 39612, 65535 >>
    /\ env = [dial |-> TRUE, addr |-> << 10, 0, 171, 205 >>]

CodecNext == Decode \/ EncodeDecode \/ CodecReturn

CodecSpec == CodecInit /\ [][CodecNext]_vars

(***************************************************************************)
(* Properties                                                              *)
(***************************************************************************)
\* Bits 63-48 and bits 47-0 of an identifier.
Top16(n) == n[1]
Low48(n) == << n[2], n[3], n[4] >>

\* The calls that have ended and whose result the caller holds.
Ended(p, op, outcome) ==
    pc[p] = "done" /\ frame[p].op = op /\ frame[p].outcome = outcome

\* The bytes Append added after the dst it was given.
Appended(fr) == SubSeq(fr.buf, Len(fr.dst) + 1, Len(fr.buf))

\* ASCII: the digits 0-9, the letters A-F, the letters a-f.
UpperHex == << 48, 49, 50, 51, 52, 53, 54, 55, 56, 57, 65, 66, 67, 68, 69, 70 >>
LowerHex == << 48, 49, 50, 51, 52, 53, 54, 55, 56, 57, 97, 98, 99, 100, 101, 102 >>
IsHexChar(b) == \E v \in 1..16 : b = UpperHex[v] \/ b = LowerHex[v]
DigitVal(b)  == (CHOOSE v \in 1..16 : b = UpperHex[v] \/ b = LowerHex[v]) - 1

\* Hex digit k (1 = leftmost, of 16) of a 64-bit value, as a number 0..15.
Nibble(n, k) == (n[((k - 1) \div 4) + 1] \div 16^(3 - ((k - 1) % 4))) % 16

\* The 16 upper-case hex digits of a 64-bit value, most significant first.
RefHex(n) == [k \in 1..16 |-> UpperHex[Nibble(n, k) + 1]]

AllOnes  == << 65535, 65535, 65535, 65535 >>
Zeros16  == [k \in 1..16 |-> 48]
Fs16     == [k \in 1..16 |-> 70]

\* C1: no two Get invocations of the process return the same 64-bit value,
\* whatever the interleaving (the run issues far fewer than 2^48
\* identifiers): as many distinct values have been returned as there were
\* returns.
C1_GetValuesDistinct == Cardinality({r.n : r \in issued}) = nIssued

\* Two overlapping Get calls have both returned, the second goroutine's
\* increment first, and the low 48 bits wrapped from all ones to 0 between
\* the two.
C1_Witness ==
    /\ Ended(1, "Get", "ok") /\ Ended(2, "Get", "ok")
    /\ frame[1].adID = AtomicAdd(frame[2].adID)
    /\ Low48(frame[2].n) = << 65535, 65535, 65535 >>
    /\ Low48(frame[1].n) = << 0, 0, 0 >>
    /\ frame[1].n # frame[2].n

\* C2: every value Get returned carries in its top 16 bits the configured
\* server identifier, the value passed to the SetServerID call that returned
\* normally, for every interleaving of Get and SetServerID.
C2_TopBitsAreConfiguredID ==
    lastSet > 0 => \A r \in issued : Top16(r.n) = lastSet

\* C3: once serverID has been assigned (is not the unset value 0) it never
\* changes again, in any step of any interleaving.
C3_ServerIDNeverChanges == [][serverID # 0 => serverID' = serverID]_vars

\* C4: a SetServerID call made after the server identifier has been
\* assigned, by an earlier SetServerID call that returned normally (with an
\* id other than the unset value 0) or by lazy initialisation during a Get,
\* panics and does not return normally: the step that begins such a call
\* ends it in a panic.
C4_SetAfterAssignedPanics ==
    [][\A p \in Procs :
          (/\ pc[p] = "idle"
           /\ frame'[p].op = "SetServerID"
           /\ (lastSet > 0 \/ LazyStored))
              => (pc'[p] = "done" /\ frame'[p].outcome = "panic")]_vars

AppendResultOK(fr) ==
    /\ Len(fr.buf) = Len(fr.dst) + 16
    /\ SubSeq(fr.buf, 1, Len(fr.dst)) = fr.dst
    /\ \A i \in 1..16 : IsHexChar(Appended(fr)[i])
    /\ fr.dst = << >> => Len(fr.buf) = 16

\* C6 as stated: Append always succeeds, no call of it ends in a panic, and
\* it returns dst, unchanged, followed by exactly 16 hex digit characters.
C6_AppendAlwaysSucceeds ==
    \A p \in Procs :
        /\ ~Ended(p, "Append", "panic")
        /\ Ended(p, "Append", "ok") => AppendResultOK(frame[p])

\* C6, amended: an Append call fails only inside Get, before any identifier
\* was obtained, when the server identifier cannot be derived; otherwise it
\* returns dst, unchanged, followed by exactly 16 hex digit characters.
C6_AppendFrame ==
    \A p \in Procs :
        /\ Ended(p, "Append", "panic")
              => (frame[p].adID = NoID /\ To4(externalIP) = << >>)
        /\ Ended(p, "Append", "ok") => AppendResultOK(frame[p])

\* Append("id=") has returned "id=" followed by 16 hex digits.
C6_Witness ==
    \E p \in Procs :
        /\ Ended(p, "Append", "ok")
        /\ frame[p].dst = << 105, 100, 61 >>
        /\ Len(frame[p].buf) = 19
        /\ SubSeq(frame[p].buf, 1, 3) = << 105, 100, 61 >>

\* C7: the 16 characters Append added are the upper-case hex digits of the
\* identifier it got from Get, most significant byte first, high nibble
\* before low nibble; the all-zero identifier gives "0000000000000000", the
\* all-ones identifier "FFFFFFFFFFFFFFFF".
C7_UpperHexBigEndian ==
    \A p \in Procs :
        Ended(p, "Append", "ok") =>
            /\ \E r \in issued : r.n = frame[p].n
            /\ Appended(frame[p]) = RefHex(frame[p].n)
            /\ frame[p].n = NoID => Appended(frame[p]) = Zeros16
            /\ frame[p].n = AllOnes => Appended(frame[p]) = Fs16

\* Append has rendered the all-ones identifier.
C7_Witness ==
    \E p \in Procs :
        /\ Ended(p, "Append", "ok")
        /\ frame[p].n = AllOnes
        /\ frame[p].buf = Fs16

\* Append has rendered the all-zero identifier.
C7_WitnessZero ==
    \E p \in Procs :
        /\ Ended(p, "Append", "ok")
        /\ frame[p].n = NoID
        /\ Appended(frame[p]) = Zeros16

C8_WitnessShort ==
    /\ codec.op = "decode"
    /\ codec.hex = << 65, 65, 65 >>
    /\ codec.out = 0

\* C9: for every input of at least 4 bytes whose first four bytes are hex
\* digits, GetServerID returns (digits 0-1 << 8) | (digits 2-3), whatever
\* the length and the bytes after the fourth.
C9_FourDigitsSuffice ==
    (/\ codec.op = "decode"
     /\ Len(codec.hex) >= 4
     /\ \A i \in 1..4 : IsHexChar(codec.hex[i]))
        => codec.out = (16 * DigitVal(codec.hex[1]) + DigitVal(codec.hex[2])) * 256
                       + (16 * DigitVal(codec.hex[3]) + DigitVal(codec.hex[4]))

\* The input with the case of the letters at the positions in S swapped.
SwapCase(b) ==
    IF b \in 65..70 THEN b + 32
    ELSE IF b \in 97..102 THEN b - 32
    ELSE b
SwapCaseAt(hex, S) == [i \in 1..Len(hex) |-> IF i \in S THEN SwapCase(hex[i]) ELSE hex[i]]

\* C10: for every valid 16-character hex input, changing the case of any of
\* the letters in its first four characters does not change what
\* GetServerID returns; and the loop of Append emits digits and upper-case
\* letters only.
C10_CaseInsensitive ==
    /\ (/\ codec.op # "none"
        /\ Len(codec.hex) = 16
        /\ \A i \in 1..16 : IsHexChar(codec.hex[i]))
          => \A S \in SUBSET (1..4) : GetServerID(SwapCaseAt(codec.hex, S)) = codec.out
    /\ codec.op = "encode"
          => \A i \in 1..16 : \E v \in 1..16 : codec.hex[i] = UpperHex[v]

\* GetServerID("aFfA000000000000") has returned 0xAFFA.
C10_Witness ==
    /\ codec.op = "decode"
    /\ codec.hex = << 97, 70, 102, 65, 48, 48, 48, 48, 48, 48, 48, 48, 48, 48, 48, 48 >>
    /\ codec.out = 45050

\* a < b for two sequences of equal length, compared element by element
\* from the left (limbs of an unsigned number, or the bytes of two strings).
LessSeq(a, b) ==
    \E i \in 1..Len(a) : a[i] < b[i] /\ \A j \in 1..(i - 1) : a[j] = b[j]

\* The counter values already handed out by an atomic increment.
Earlier ==
    {r.adID : r \in issued} \cup {frame[q].adID : q \in {x \in Procs : pc[x] = "ret"}}

\* Between the increment that gave a and the later one that gave b, the low
\* 48 bits of the counter passed through 0.
WrappedBetween(a, b) ==
    LET d == Sub64(b, a)
    IN  /\ d[1] = 0 /\ d[2] = 0 /\ d[3] = 0
        /\ \E j \in 1..d[4] : Low48(Add64(a, U64(j))) = << 0, 0, 0 >>

\* C11: the counter changes only by the increment of one Get or Append call
\* per step, by exactly 1, and every call that goes on to return an
\* identifier made exactly one such increment; the value a call observes was
\* observed by no earlier call, and every earlier call's 48-bit sequence is
\* strictly less than the new one unless the sequence wrapped in between.
C11_IncrementsOrderIssuance ==
    [][ /\ (uniqueAdID' # uniqueAdID) <=> (\E p \in Procs : pc[p] # "ret" /\ pc'[p] = "ret")
        /\ uniqueAdID' # uniqueAdID =>
              /\ uniqueAdID' = Add64(uniqueAdID, U64(1))
              /\ \E p \in Procs :
                    /\ pc[p] = "add" /\ pc'[p] = "ret"
                    /\ frame[p].op \in {"Get", "Append"}
                    /\ frame'[p].adID = uniqueAdID'
                    /\ \A q \in Procs \ {p} : pc'[q] = pc[q] /\ frame'[q] = frame[q]
              /\ \A a \in Earlier :
                    /\ a # uniqueAdID'
                    /\ LessSeq(Low48(a), Low48(uniqueAdID')) \/ WrappedBetween(a, uniqueAdID')
      ]_vars

\* A Get and then an Append have each taken one value of the counter, the
\* Append's the successor of the Get's, with no wrap of the sequence between.
C11_Witness ==
    /\ Ended(1, "Get", "ok") /\ Ended(2, "Append", "ok")
    /\ frame[2].adID = Add64(frame[1].adID, U64(1))
    /\ uniqueAdID = frame[2].adID
    /\ LessSeq(Low48(frame[1].adID), Low48(frame[2].adID))
    /\ ~WrappedBetween(frame[1].adID, frame[2].adID)

\* The same across the wrap of the 48-bit sequence: the later call's sequence
\* field is 0, the earlier call's is 2^48 - 1.
C11_WitnessWrap ==
    /\ Ended(1, "Append", "ok") /\ Ended(2, "Get", "ok")
    /\ frame[2].adID = Add64(frame[1].adID, U64(1))
    /\ WrappedBetween(frame[1].adID, frame[2].adID)
    /\ LessSeq(Low48(frame[2].adID), Low48(frame[1].adID))

\* Goroutine p, running initServerID, executes the derivation of the server
\* identifier from the external address (it ends in a store, a panic or the
\* end of the process).
DeriveStep(p) ==
    pc[p] = "init_derive" /\ (pc'[p] # "init_derive" \/ exited' # exited)

\* C12: the derivation is executed at most once per process (only by the one
\* caller that runs the once, which is done afterwards and stays done); it is
\* not executed when a SetServerID call with a nonzero id had returned before
\* the first Get began; no Get returns an identifier before the once is
\* done; and the value stored is (third byte << 8) | fourth byte of the IPv4
\* address.
C12_DerivedOnceUnlessSet ==
    [][ /\ once = "done" => once' = "done"
        /\ \A p \in Procs :
              /\ DeriveStep(p) =>
                    /\ once = "running"
                    /\ exited' \/ once' = "done"
                    /\ \A q \in Procs \ {p} : pc[q] \notin {"init_check", "init_derive"}
                    /\ frame[p].setAtCall <= 0
                    /\ (~exited' /\ Len(externalIP') = 4)
                          => serverID' = (externalIP'[3] * 256) + externalIP'[4]
              /\ (pc[p] = "ret" /\ pc'[p] # "ret") => once = "done"
      ]_vars

\* The increment that gave counter value a came before the one that gave b
\* (a run makes at most MaxCalls increments).
IncBefore(a, b) ==
    LET d == Sub64(b, a)
    IN  d[1] = 0 /\ d[2] = 0 /\ d[3] = 0 /\ d[4] \in 1..MaxCalls

\* C13: of two identifiers issued in the process, the one whose increment
\* came first, with no wrap of the 48-bit sequence in between, is the
\* smaller 64-bit number, and the 16 characters Append renders for it are
\* bytewise smaller than those of the other.
C13_SortableByIssuance ==
    \A a \in issued : \A b \in issued :
        (IncBefore(a.adID, b.adID) /\ ~WrappedBetween(a.adID, b.adID))
            => /\ LessSeq(a.n, b.n)
               /\ LessSeq(AppendLoop(<< >>, a.n, 1), AppendLoop(<< >>, b.n, 1))

\* No SetServerID call has stored an identifier, and none is about to.
NeverSet == lastSet = -1 /\ \A p \in Procs : pc[p] # "set_write"

\* The external address of the process can be determined and has a 4-byte form.
ResolvesToIPv4 == env.dial /\ To4(env.addr) # << >>

\* C14: when no server identifier was explicitly set and the external
\* address cannot be resolved to an IPv4 address, no Get call of the process
\* returns an identifier: not the one that triggers the derivation, and none
\* after it.
C14_NoIdentifierWithoutServerID ==
    (NeverSet /\ ~ResolvesToIPv4) => issued = {}

\* C15: the value a Get hands back is serverID * 2^48 + (c mod 2^48) for the
\* post-increment value c of the 64-bit counter: its top 16 bits are the
\* serverID read at the return, its low 48 bits are those of c, whatever c
\* is; and a call that has made its increment goes on to return, it does
\* not fail.
C15_ValueIsServerIDOverSequence ==
    [][ \A p \in Procs :
          /\ (pc[p] = "add" /\ pc'[p] # "add") =>
                /\ pc'[p] = "ret"
                /\ frame'[p].adID = Add64(uniqueAdID, U64(1))
          /\ (pc[p] = "ret" /\ pc'[p] # "ret") =>
                /\ pc'[p] \in {"done", "encode"}
                /\ frame'[p].outcome # "panic"
                /\ frame'[p].adID = frame[p].adID
                /\ frame'[p].n = << serverID, frame[p].adID[2], frame[p].adID[3],
                                    frame[p].adID[4] >>
                /\ [adID |-> frame[p].adID, n |-> frame'[p].n] \in issued'
      ]_vars

\* With serverID 77, a Get has returned at the overflow of the 64-bit
\* counter: the counter went from 2^64 - 1 to 0 and the value is 77 * 2^48.
C15_Witness ==
    \E p \in Procs :
        /\ Ended(p, "Get", "ok")
        /\ uniqueAdID = << 0, 0, 0, 0 >>
        /\ frame[p].adID = << 0, 0, 0, 0 >>
        /\ frame[p].n = << 77, 0, 0, 0 >>

\* A Get has returned with a counter at or above 2^48: the bits of the
\* counter above bit 47 do not reach the value.
C15_WitnessHigh ==
    \E p \in Procs :
        /\ Ended(p, "Get", "ok")
        /\ frame[p].adID = << 6245, 15437, 39613, 0 >>
        /\ frame[p].n = << 65535, 15437, 39613, 0 >>

\* C16: a SetServerID(0) call that found the identifier unset leaves the
\* process in the "not yet assigned" state: its store leaves serverID at 0
\* and touches neither the once nor the counter.  After such a call has
\* returned, and before any Get, a SetServerID call with a nonzero id passes
\* the check and returns normally, and the first Get's initServerID goes on
\* to derive the identifier from the external address.
C16_SetZeroLeavesUnset ==
    [][ \A p \in Procs :
          /\ (pc[p] = "set_write" /\ frame[p].id = 0 /\ pc'[p] # "set_write") =>
                /\ serverID' = 0
                /\ frame'[p].outcome = "ok"
                /\ once' = once /\ uniqueAdID' = uniqueAdID
                /\ externalIP' = externalIP /\ externalIPOnce' = externalIPOnce
          /\ (lastSet = 0 /\ once = "idle" /\ pc[p] = "idle"
                /\ frame'[p].op = "SetServerID" /\ frame'[p].id > 0) =>
                pc'[p] = "set_write"
          /\ (pc[p] = "set_write" /\ pc'[p] # "set_write") =>
                (pc'[p] = "done" /\ frame'[p].outcome = "ok" /\ serverID' = frame[p].id)
          /\ (lastSet = 0 /\ pc[p] = "init_check" /\ pc'[p] # "init_check") =>
                pc'[p] = "init_derive"
      ]_vars

\* SetServerID(0) has returned, and a SetServerID(77) call made after it has
\* returned normally.
C16_Witness ==
    \E p \in Procs :
        /\ Ended(p, "SetServerID", "ok")
        /\ frame[p].id = 77
        /\ frame[p].setBefore = 0
        /\ serverID = 77

\* SetServerID(0) has returned, and the first Get after it has derived the
\* identifier 43981 from the address 10.0.171.205.
C16_WitnessGet ==
    \E p \in Procs :
        /\ Ended(p, "Get", "ok")
        /\ frame[p].setBefore = 0
        /\ Top16(frame[p].n) = 43981

\* Goroutine p is inside a Get (directly or through Append).
InGet(p) == pc[p] \in {"once", "init_check", "init_derive", "add", "ret"}

\* C17: under fair scheduling every Get invocation completes: it returns an
\* identifier to its caller, or fails fatally (it panics, or the process
\* ends).  A Get that cannot take its next step is waiting in once.Do for the
\* initServerID another caller is running; once that is done, every Get in
\* progress can take its next step whatever the other callers do.
C17_GetCompletes ==
    /\ \A p \in Procs : InGet(p) ~> (~InGet(p) \/ exited)
    /\ [](\A p \in Procs :
            (InGet(p) /\ ~exited /\ ~ENABLED CallStep(p))
                => (pc[p] = "once" /\ once = "running"))
    /\ [](\A p \in Procs :
            (InGet(p) /\ ~exited /\ once = "done") => ENABLED CallStep(p))

\* A Get is waiting in once.Do while another caller runs initServerID.
C17_Witness ==
    \E p \in Procs : \E q \in Procs :
        /\ pc[p] = "once" /\ once = "running" /\ ~ENABLED CallStep(p)
        /\ pc[q] = "init_derive"

\* C18: a SetServerID call fails only when the identifier is already set,
\* and the failing call changes nothing: serverID, the counter, the once and
\* the external address are as before, and no identifier is issued by it.
C18_FailedSetChangesNothing ==
    [][ \A p \in Procs :
          (pc[p] = "idle" /\ frame'[p].op = "SetServerID" /\ frame'[p].outcome = "panic") =>
              /\ serverID > 0
              /\ serverID' = serverID
              /\ uniqueAdID' = uniqueAdID
              /\ once' = once
              /\ externalIP' = externalIP /\ externalIPOnce' = externalIPOnce
              /\ issued' = issued /\ nIssued' = nIssued
              /\ exited' = exited
      ]_vars

\* A Get returned an identifier with the derived server field 43981, then a
\* SetServerID call failed, and the Get made after it has returned the next
\* value of the sequence under the same server field.
C18_Witness ==
    /\ Ended(1, "SetServerID", "panic")
    /\ Ended(2, "Get", "ok")
    /\ serverID = 43981
    /\ Top16(frame[2].n) = 43981
    /\ \E r \in issued :
          /\ frame[2].adID = Add64(r.adID, U64(1))
          /\ Top16(r.n) = 43981
          /\ Low48(frame[2].n) = Low48(Add64(r.n, U64(1)))

\* C19: two Append calls of the process that got different counter values
\* and the same server identifier append different 16-character strings
\* (the run issues far fewer than 2^48 identifiers): the characters an
\* Append call has added differ from those of every other Append call that
\* has ended, and from the rendering of every other identifier issued.
C19_HexInjectiveOnIssued ==
    \A p \in Procs :
        Ended(p, "Append", "ok") =>
            /\ \A q \in Procs \ {p} :
                  (Ended(q, "Append", "ok") /\ Top16(frame[q].n) = Top16(frame[p].n))
                      => Appended(frame[q]) # Appended(frame[p])
            /\ \A r \in issued :
                  (r.adID # frame[p].adID /\ Top16(r.n) = Top16(frame[p].n))
                      => AppendLoop(<< >>, r.n, 1) # Appended(frame[p])

\* Two concurrent Append calls under server identifier 77 have returned
\* strings that differ in their last character only.
C19_Witness ==
    /\ Ended(1, "Append", "ok") /\ Ended(2, "Append", "ok")
    /\ Top16(frame[1].n) = 77 /\ Top16(frame[2].n) = 77
    /\ SubSeq(Appended(frame[1]), 1, 15) = SubSeq(Appended(frame[2]), 1, 15)
    /\ Appended(frame[1])[16] # Appended(frame[2])[16]
=============================================================================
